---- MODULE Spec2Model ----
(***************************************************************************)
(* Model of the UndertaleModTool export scripts of mod_generator           *)
(* (umt_scripts/*.csx).                                                     *)
(*                                                                         *)
(* A string is a sequence of UTF-16 code units (natural numbers); the     *)
(* null reference is the one-element sequence NullRef.  A map is the      *)
(* sequence of its entries in enumeration order.                          *)
(***************************************************************************)
EXTENDS Integers, Sequences, FiniteSets

VARIABLES
    Data,          \* the host's loaded game data: Sounds, Sprites, GameObjects, IsYYC
    fs,            \* file system: paths.json, the output directory, the output files
    diskFaulty,    \* environment: whether File.WriteAllText may hit an I/O error
    pc,            \* position of the running script
    script,        \* which export script is running
    outputFolder,  \* local of the script: result of GetMetaOutput
    exportData,    \* local of the script: the map handed to JsonSerializer
    json,          \* local of the script: the serialized text
    host,          \* what the host has shown: ScriptError / ScriptMessage / exception
    fsBefore,      \* the file system as it was when the script started
    steps,         \* the steps the running script has executed so far
    runsLeft,      \* number of script invocations still allowed
    held,          \* what the running script holds open: document, output file
    renderer,      \* the GlfwRenderer object: its life cycle and _initialized
    backend,       \* the ImGui backends and context: what is initialized or held
    calls,         \* the backend functions called so far, in order
    ret            \* the last call of a binding: arguments, and what it
                   \* returned or raised (for input_text, its buffer accesses)

\* the state of the export scripts, and the state of the ImGui bindings
exportVars == <<Data, fs, diskFaulty, pc, script, outputFolder, exportData, json,
                host, fsBefore, steps, runsLeft, held>>

guiVars == <<renderer, backend, calls, ret>>

vars == <<exportVars, guiVars>>

-----------------------------------------------------------------------------
(* Bounds *)

\* longest record collection of the transformation specifications
MaxRecords == 3

\* longest record collection of the whole-script specification
MaxScriptRecords == 1

\* number of script invocations of the whole-script specification
MaxRuns == 1

\* names in a map handed to the JSON writer on its own
MaxJsonNames == 3

\* records of a collection long enough for indices of two digits
MaxLongRecords == 11

\* calls of the ImGui bindings in one behaviour
MaxCalls == 2

\* positional arguments after idx in a call of push_style_color
MaxArgs == 5

\* length of the log of backend calls after which no renderer method is called
MaxBackendCalls == 8

-----------------------------------------------------------------------------
(* Strings *)

\* a null reference (UndertaleString Name == null, or ParentId == null as 0)
NullRef == <<0 - 1>>

\* the names records are drawn from: "", "B", "a", "b"
\* (GameMaker resource names are identifiers; "" is the spec's edge case)
NameUniverse == {<<>>, <<66>>, <<97>>, <<98>>}

\* Int32.ToString(): the decimal digits of a non-negative index
RECURSIVE ToString(_)
ToString(i) ==
    IF i < 10 THEN <<48 + i>>
    ELSE ToString(i \div 10) \o <<48 + (i % 10)>>

\* string.CompareOrdinal: code unit by code unit, a proper prefix first
RECURSIVE OrdinalCompare(_, _)
OrdinalCompare(x, y) ==
    IF x = <<>> /\ y = <<>> THEN 0
    ELSE IF x = <<>> THEN 0 - 1
    ELSE IF y = <<>> THEN 1
    ELSE IF Head(x) < Head(y) THEN 0 - 1
    ELSE IF Head(x) > Head(y) THEN 1
    ELSE OrdinalCompare(Tail(x), Tail(y))

\* primary collation weight of an identifier character under the culture's
\* collation: "_" before digits before letters, letters regardless of case
PrimaryWeight(c) ==
    IF c = 95 THEN 0
    ELSE IF c >= 48 /\ c <= 57 THEN c - 47
    ELSE IF c >= 65 /\ c <= 90 THEN c + 32
    ELSE c

\* tertiary weight: lower case before upper case
TertiaryWeight(c) == IF c >= 65 /\ c <= 90 THEN 1 ELSE 0

\* the collation keys of a string
PrimaryKey(x) == [i \in 1..Len(x) |-> PrimaryWeight(x[i])]

TertiaryKey(x) == [i \in 1..Len(x) |-> TertiaryWeight(x[i])]

\* Comparer<string>.Default, i.e. String.CompareTo: the culture-sensitive
\* comparison of the current culture (letters first, case breaks ties)
DefaultCompare(x, y) ==
    LET p == OrdinalCompare(PrimaryKey(x), PrimaryKey(y))
    IN  IF p # 0 THEN p
        ELSE OrdinalCompare(TertiaryKey(x), TertiaryKey(y))

-----------------------------------------------------------------------------
(* LINQ over the record collections *)

\* obj.Name.Content: the record's name; reading it through a null Name throws
NameReadable(r) == r.name # NullRef

\* faulty variant: indices counted from one
SelectIndexedFromOne(S) == [i \in 1..Len(S) |-> [Index |-> i, Name |-> S[i].name]]

\* faulty variant: a name seen before is dropped (Distinct) before the indices are given
SelectIndexedDistinct(S) ==
    LET firsts == {i \in 1..Len(S) : \A j \in 1..(i - 1) : S[j].name # S[i].name}
        rank(i) == Cardinality({j \in firsts : j < i})
    IN  [k \in 1..Cardinality(firsts) |->
            LET i == CHOOSE i \in firsts : rank(i) = k - 1
            IN  [Index |-> k - 1, Name |-> S[i].name]]

\* .Select((obj, index) => new { Index = index, Name = obj.Name.Content })
SelectIndexed(S) == [i \in 1..Len(S) |-> [Index |-> i - 1, Name |-> S[i].name]]

\* stable insertion of x into a sequence ordered by Index
RECURSIVE InsertByIndex(_, _)
InsertByIndex(sorted, x) ==
    IF sorted = <<>> THEN <<x>>
    ELSE IF sorted[Len(sorted)].Index <= x.Index THEN Append(sorted, x)
    ELSE Append(InsertByIndex(SubSeq(sorted, 1, Len(sorted) - 1), x),
                sorted[Len(sorted)])

\* stable insertion of x into a sequence ordered by the text of Index
RECURSIVE InsertByIndexText(_, _)
InsertByIndexText(sorted, x) ==
    IF sorted = <<>> THEN <<x>>
    ELSE IF OrdinalCompare(ToString(sorted[Len(sorted)].Index),
                           ToString(x.Index)) <= 0
    THEN Append(sorted, x)
    ELSE Append(InsertByIndexText(SubSeq(sorted, 1, Len(sorted) - 1), x),
                sorted[Len(sorted)])

\* faulty variant: the records are ordered by the text of Index ("10" before "2")
RECURSIVE OrderByIndexText(_)
OrderByIndexText(m) ==
    IF m = <<>> THEN <<>>
    ELSE InsertByIndexText(OrderByIndexText(SubSeq(m, 1, Len(m) - 1)), m[Len(m)])

\* .OrderBy(x => x.Index): stable sort by Index
RECURSIVE OrderByIndex(_)
OrderByIndex(m) ==
    IF m = <<>> THEN <<>>
    ELSE InsertByIndex(OrderByIndex(SubSeq(m, 1, Len(m) - 1)), m[Len(m)])

\* the keys of a map, in enumeration order
Keys(entries) == [i \in 1..Len(entries) |-> entries[i].key]

KeySet(entries) == {entries[i].key : i \in 1..Len(entries)}

\* .ToDictionary(x => x.Index.ToString(), x => x.Name): entries in insertion
\* order; a key already present throws ArgumentException
RECURSIVE IndexToDictionary(_)
IndexToDictionary(m) ==
    IF m = <<>> THEN [ok |-> TRUE, entries |-> <<>>]
    ELSE LET rest == IndexToDictionary(SubSeq(m, 1, Len(m) - 1))
             k == ToString(m[Len(m)].Index)
         IN  IF ~rest.ok \/ k \in KeySet(rest.entries)
             THEN [ok |-> FALSE, entries |-> <<>>]
             ELSE [ok |-> TRUE,
                   entries |-> Append(rest.entries,
                                      [key |-> k, value |-> m[Len(m)].Name])]

\* faulty variant: an empty collection is rejected
NameIndexProjectorNonEmpty(S) ==
    IF S = <<>> \/ \E i \in 1..Len(S) : ~NameReadable(S[i])
    THEN [ok |-> FALSE, entries |-> <<>>]
    ELSE IndexToDictionary(OrderByIndex(SelectIndexed(S)))

\* mapping / exportData of the index-map scripts: throws when a Name is null
\* (NullReferenceException) or a key repeats
NameIndexProjector(S) ==
    IF \E i \in 1..Len(S) : ~NameReadable(S[i])
    THEN [ok |-> FALSE, entries |-> <<>>]
    ELSE IndexToDictionary(OrderByIndex(SelectIndexed(S)))

\* o.ParentId is not null (0 stands for the null ParentId, otherwise the
\* position in GameObjects of the record ParentId refers to)
HasParent(r) == r.parent # 0

\* faulty variant: a record whose parent has an empty name is filtered out as well
WhereHasNamedParent(S) ==
    LET Named1(r) == r.parent # 0 /\ S[r.parent].name # <<>>
    IN  SelectSeq(S, Named1)

\* .Where(o => o.ParentId is not null)
WhereHasParent(S) == SelectSeq(S, HasParent)

\* faulty variant: the name of the parent's parent when there is one (a tree walk
\* instead of the direct parent)
ParentNameGrand(S, r) ==
    IF S[r.parent].parent # 0
    THEN S[S[r.parent].parent].name
    ELSE S[r.parent].name

\* faulty variant: the record's own name is taken as the group key
ParentNameOwn(S, r) == r.name

\* o.ParentId.Name.Content
ParentName(S, r) == S[r.parent].name

\* position of the group with key k, or 0
GroupIndex(groups, k) ==
    IF \E i \in 1..Len(groups) : groups[i].Key = k
    THEN CHOOSE i \in 1..Len(groups) : groups[i].Key = k
    ELSE 0

\* .GroupBy(o => o.ParentId.Name.Content) over the filtered records F of S:
\* groups in order of first occurrence of their key (ordinal equality),
\* members in source order
RECURSIVE GroupByParentName(_, _)
GroupByParentName(S, F) ==
    IF F = <<>> THEN <<>>
    ELSE LET groups == GroupByParentName(S, SubSeq(F, 1, Len(F) - 1))
             o == F[Len(F)]
             k == ParentName(S, o)
             g == GroupIndex(groups, k)
         IN  IF g = 0 THEN Append(groups, [Key |-> k, members |-> <<o>>])
             ELSE [groups EXCEPT ![g].members = Append(@, o)]

\* faulty variant: the names of a group without repetitions (Distinct)
SelectNamesDistinct(members) ==
    LET firsts == {i \in 1..Len(members) :
                      \A j \in 1..(i - 1) : members[j].name # members[i].name}
        rank(i) == Cardinality({j \in firsts : j < i})
    IN  [k \in 1..Cardinality(firsts) |->
            members[CHOOSE i \in firsts : rank(i) = k - 1].name]

\* g.Select(o => o.Name.Content)
SelectNames(members) == [i \in 1..Len(members) |-> members[i].name]

\* stable insertion of the string x into a sequence ordered by the default comparer
RECURSIVE InsertByName(_, _)
InsertByName(sorted, x) ==
    IF sorted = <<>> THEN <<x>>
    ELSE IF DefaultCompare(sorted[Len(sorted)], x) <= 0 THEN Append(sorted, x)
    ELSE Append(InsertByName(SubSeq(sorted, 1, Len(sorted) - 1), x),
                sorted[Len(sorted)])

\* faulty variant: the names are left in source order
OrderByNameOmitted(names) == names

\* .OrderBy(n => n).ToList(): stable sort of strings by Comparer<string>.Default
RECURSIVE OrderByName(_)
OrderByName(names) ==
    IF names = <<>> THEN <<>>
    ELSE InsertByName(OrderByName(SubSeq(names, 1, Len(names) - 1)),
                      names[Len(names)])

\* faulty variant: every record name that is no group key is added with an empty list
RECURSIVE WithChildlessKeys(_, _)
WithChildlessKeys(entries, S) ==
    IF S = <<>> THEN entries
    ELSE LET rest == WithChildlessKeys(entries, SubSeq(S, 1, Len(S) - 1))
             k == S[Len(S)].name
         IN  IF \E i \in 1..Len(rest) : rest[i].key = k THEN rest
             ELSE Append(rest, [key |-> k, value |-> <<>>])

\* .ToDictionary(g => g.Key, g => g.Select(...).OrderBy(n => n).ToList())
GroupsToDictionary(groups) ==
    [i \in 1..Len(groups) |->
        [key |-> groups[i].Key,
         value |-> OrderByName(SelectNames(groups[i].members))]]

\* faulty variant: a key for every record, childless ones with an empty list
InheritanceDictAllRecords(S) ==
    LET F == WhereHasParent(S)
    IN  [ok |-> TRUE,
         entries |-> WithChildlessKeys(
                         GroupsToDictionary(GroupByParentName(S, F)), S)]

\* inheritanceDict: throws NullReferenceException when the Name of a grouped
\* record or of its parent is null
InheritanceDict(S) ==
    LET F == WhereHasParent(S)
    IN  IF \E i \in 1..Len(F) :
              ~NameReadable(F[i]) \/ ~NameReadable(S[F[i].parent])
        THEN [ok |-> FALSE, entries |-> <<>>]
        ELSE [ok |-> TRUE,
              entries |-> GroupsToDictionary(GroupByParentName(S, F))]

\* SortedDictionary.Add: the entry goes to its place under the default
\* comparer; a key comparing equal to one present throws ArgumentException
RECURSIVE SortedInsert(_, _)
SortedInsert(sorted, e) ==
    IF ~sorted.ok THEN sorted
    ELSE IF sorted.entries = <<>> THEN [ok |-> TRUE, entries |-> <<e>>]
    ELSE LET n == Len(sorted.entries)
             last == sorted.entries[n]
             c == DefaultCompare(last.key, e.key)
         IN  IF c = 0 THEN [ok |-> FALSE, entries |-> <<>>]
             ELSE IF c < 0 THEN [ok |-> TRUE, entries |-> Append(sorted.entries, e)]
             ELSE LET rest == SortedInsert(
                                  [ok |-> TRUE,
                                   entries |-> SubSeq(sorted.entries, 1, n - 1)], e)
                  IN  IF rest.ok
                      THEN [ok |-> TRUE, entries |-> Append(rest.entries, last)]
                      ELSE rest

\* faulty variant: the dictionary is serialized in its own (insertion) order
SortedDictionaryOmitted(entries) == [ok |-> TRUE, entries |-> entries]

\* new SortedDictionary<string, List<string>>(inheritanceDict)
RECURSIVE SortedDictionary(_)
SortedDictionary(entries) ==
    IF entries = <<>> THEN [ok |-> TRUE, entries |-> <<>>]
    ELSE SortedInsert(SortedDictionary(SubSeq(entries, 1, Len(entries) - 1)),
                      entries[Len(entries)])

\* sortedDict of the hierarchy script, from Data.GameObjects
HierarchyGrouper(S) ==
    LET d == InheritanceDict(S)
    IN  IF d.ok THEN SortedDictionary(d.entries) ELSE d

-----------------------------------------------------------------------------
(* JsonSerializer.Serialize with WriteIndented and UnsafeRelaxedJsonEscaping *)

\* an upper-case hexadecimal digit, and the four digits of a code unit
HexDigit(d) == IF d < 10 THEN 48 + d ELSE 55 + d

Hex4(c) ==
    <<HexDigit(c \div 4096), HexDigit((c \div 256) % 16),
      HexDigit((c \div 16) % 16), HexDigit(c % 16)>>

\* faulty variant: every code unit is written as it is
EscapeCharNone(c) == <<c>>

\* one code unit of a JSON string under the relaxed encoder: the quote and
\* the backslash get a backslash, the control characters their short escape
\* or \uXXXX, the units of a surrogate pair \uXXXX; all else is written as
\* it is (strings are well formed: no unpaired surrogate)
EscapeChar(c) ==
    IF c = 34 THEN <<92, 34>>
    ELSE IF c = 92 THEN <<92, 92>>
    ELSE IF c = 8 THEN <<92, 98>>
    ELSE IF c = 9 THEN <<92, 116>>
    ELSE IF c = 10 THEN <<92, 110>>
    ELSE IF c = 12 THEN <<92, 102>>
    ELSE IF c = 13 THEN <<92, 114>>
    ELSE IF c < 32 \/ (c >= 127 /\ c <= 159) \/ (c >= 55296 /\ c <= 57343)
    THEN <<92, 117>> \o Hex4(c)
    ELSE <<c>>

RECURSIVE EscapeString(_)
EscapeString(s) ==
    IF s = <<>> THEN <<>> ELSE EscapeChar(Head(s)) \o EscapeString(Tail(s))

\* a quoted JSON string
JsonString(s) == <<34>> \o EscapeString(s) \o <<34>>

\* Environment.NewLine of the host's platform
NewLine == <<13, 10>>

Indent(depth) == [i \in 1..(2 * depth) |-> 32]

\* the elements of a List<string>, one per line, comma separated
RECURSIVE JsonArrayItems(_)
JsonArrayItems(list) ==
    IF list = <<>> THEN <<>>
    ELSE NewLine \o Indent(2) \o JsonString(Head(list))
         \o (IF Tail(list) = <<>> THEN <<>> ELSE <<44>>)
         \o JsonArrayItems(Tail(list))

\* a List<string> value
JsonArray(list) ==
    IF list = <<>> THEN <<91, 93>>
    ELSE <<91>> \o JsonArrayItems(list) \o NewLine \o Indent(1) \o <<93>>

\* the value of a property: a string for the index maps, a list for the tree
JsonValue(isList, v) == IF isList THEN JsonArray(v) ELSE JsonString(v)

\* the properties of the object, one per line, in enumeration order
RECURSIVE JsonProperties(_, _)
JsonProperties(isList, entries) ==
    IF entries = <<>> THEN <<>>
    ELSE NewLine \o Indent(1) \o JsonString(Head(entries).key) \o <<58, 32>>
         \o JsonValue(isList, Head(entries).value)
         \o (IF Tail(entries) = <<>> THEN <<>> ELSE <<44>>)
         \o JsonProperties(isList, Tail(entries))

\* names with characters the writer must escape, and characters outside
\* ASCII: "", a quote, backslash u, newline and U+0001, e-acute and a slash,
\* DEL and a tab, a surrogate pair (U+1F600), plain "a"
JsonNames ==
    {<<>>, <<34>>, <<92, 117>>, <<10, 1>>, <<233, 47>>, <<127, 9>>,
     <<55357, 56832>>, <<97>>}

\* the positions of q that hold a name for the first time
Firsts(q) == {i \in 1..Len(q) : \A j \in 1..(i - 1) : q[j] # q[i]}

\* the k-th of those positions
NthFirst(q, k) ==
    CHOOSE i \in Firsts(q) : Cardinality({j \in Firsts(q) : j < i}) = k - 1

\* a Dictionary<string, string> over the names of q: each distinct name is a
\* key, its value the name at the mirrored position
StringMapOf(q) ==
    [k \in 1..Cardinality(Firsts(q)) |->
        LET i == NthFirst(q, k)
        IN  [key |-> q[i], value |-> q[Len(q) + 1 - i]]]

\* a SortedDictionary<string, List<string>> over the names of q: each
\* distinct name is a key, its value the list of the names after it
ListMapOf(q) ==
    [k \in 1..Cardinality(Firsts(q)) |->
        LET i == NthFirst(q, k)
        IN  [key |-> q[i], value |-> SubSeq(q, i + 1, Len(q))]]

\* JsonSerializer.Serialize(exportData, options)
Serialize(isList, entries) ==
    IF entries = <<>> THEN <<123, 125>>
    ELSE <<123>> \o JsonProperties(isList, entries) \o NewLine \o <<125>>

-----------------------------------------------------------------------------
(* Paths and the file system *)

\* the four export scripts
IndexScripts == {"ExportSoundMap", "ExportSpriteMap", "ExportObjectMap"}

Scripts == IndexScripts \cup {"ExportObjectTree"}

\* faulty variant: every script writes to the file of the sound map
OutputFileNameShared(s) == "sound_index_map.json"

\* the file name each script passes to Path.Combine(outputFolder, ...)
OutputFileName(s) ==
    CASE s = "ExportSoundMap" -> "sound_index_map.json"
      [] s = "ExportSpriteMap" -> "sprite_index_map.json"
      [] s = "ExportObjectMap" -> "object_index_map.json"
      [] s = "ExportObjectTree" -> "object_tree.json"

\* the record collection each script enumerates
Collection(s) ==
    CASE s = "ExportSoundMap" -> Data.Sounds
      [] s = "ExportSpriteMap" -> Data.Sprites
      [] s = "ExportObjectMap" -> Data.GameObjects
      [] s = "ExportObjectTree" -> Data.GameObjects

\* A path is its segments with two flags, as Windows (the host's platform)
\* reads it: rooted (Path.IsPathRooted: it starts with a separator or a
\* drive) and qualified (it names its drive, so it is absolute)

\* ScriptPath: the host's path of the running script
ScriptPath(s) ==
    [rooted |-> TRUE, qualified |-> TRUE, segs |-> <<"proj", "umt_scripts", s>>]

\* Path.GetDirectoryName
GetDirectoryName(p) == [p EXCEPT !.segs = SubSeq(@, 1, Len(@) - 1)]

\* Path.Combine: a rooted second argument replaces the first
Combine(a, b) ==
    IF b.rooted THEN b
    ELSE [rooted |-> a.rooted, qualified |-> a.qualified, segs |-> a.segs \o b.segs]

\* Path.GetFullPath of a path on the script's drive: ".." removes the segment
\* before it, and the result is absolute
RECURSIVE ResolveDots(_, _)
ResolveDots(done, rest) ==
    IF rest = <<>> THEN done
    ELSE IF Head(rest) = ".."
         THEN ResolveDots(IF done = <<>> THEN <<>>
                          ELSE SubSeq(done, 1, Len(done) - 1), Tail(rest))
         ELSE ResolveDots(Append(done, Head(rest)), Tail(rest))

GetFullPath(p) ==
    [rooted |-> TRUE, qualified |-> TRUE, segs |-> ResolveDots(<<>>, p.segs)]

\* Path.IsPathRooted
IsPathRooted(p) == p.rooted

\* a relative segment sequence as a path value
Relative(segs) == [rooted |-> FALSE, qualified |-> FALSE, segs |-> segs]

\* faulty variant: the script's own directory is taken as the root
RootDirOfScript(s) == GetDirectoryName(ScriptPath(s))

\* rootDir of GetMetaOutput
RootDir(s) ==
    GetFullPath(Combine(GetDirectoryName(ScriptPath(s)), Relative(<<"..">>)))

\* the values data_meta takes in the model: relative ("data\meta"), rooted
\* with its drive ("C:\srv\meta") and rooted without a drive ("\meta")
RelativeMeta == Relative(<<"data", "meta">>)

RootedMeta == [rooted |-> TRUE, qualified |-> TRUE, segs |-> <<"srv", "meta">>]

DriveRelativeMeta == [rooted |-> TRUE, qualified |-> FALSE, segs |-> <<"meta">>]

\* the contents paths.json takes in the model: no file, not JSON, or an object
\* whose data_meta is missing, a number, null, "" or a path string
ConfigStates ==
    {[file |-> f, data_meta |-> "missing", path |-> Relative(<<>>)] :
        f \in {"absent", "malformed"}}
    \cup {[file |-> "object", data_meta |-> k, path |-> Relative(<<>>)] :
            k \in {"missing", "number", "null", "string"}}
    \cup {[file |-> "object", data_meta |-> "string", path |-> q] :
            q \in {RelativeMeta, RootedMeta, DriveRelativeMeta}}

\* faulty variant: only a null data_meta is rejected
IsNullOnly(c) == c.data_meta = "null"

\* string.IsNullOrEmpty(val.GetString())
IsNullOrEmpty(c) == c.data_meta = "null" \/ (c.path.segs = <<>> /\ ~c.path.rooted)

\* faulty variant: without paths.json the default folder data\meta is taken
GetMetaOutputDefaultFolder(s, c) ==
    LET none == Relative(<<>>)
    IN  IF c.file = "absent"
        THEN [ok |-> TRUE, error |-> "",
              folder |-> GetFullPath(Combine(RootDir(s), RelativeMeta))]
        ELSE IF c.file = "malformed"
        THEN [ok |-> FALSE, error |-> "JsonException", folder |-> none]
        ELSE IF c.data_meta = "missing"
        THEN [ok |-> FALSE, error |-> "KeyNotFoundException", folder |-> none]
        ELSE IF c.data_meta = "number"
        THEN [ok |-> FALSE, error |-> "InvalidOperationException", folder |-> none]
        ELSE IF IsNullOrEmpty(c)
        THEN [ok |-> FALSE, error |-> "Exception", folder |-> none]
        ELSE [ok |-> TRUE, error |-> "",
              folder |-> IF ~IsPathRooted(c.path)
                         THEN GetFullPath(Combine(RootDir(s), c.path))
                         ELSE c.path]

\* GetMetaOutput up to the directory check: the exception thrown, or the folder
GetMetaOutput(s, c) ==
    LET none == Relative(<<>>)
    IN  IF c.file = "absent"
        THEN [ok |-> FALSE, error |-> "FileNotFoundException", folder |-> none]
        ELSE IF c.file = "malformed"
        THEN [ok |-> FALSE, error |-> "JsonException", folder |-> none]
        ELSE IF c.data_meta = "missing"
        THEN [ok |-> FALSE, error |-> "KeyNotFoundException", folder |-> none]
        ELSE IF c.data_meta = "number"
        THEN [ok |-> FALSE, error |-> "InvalidOperationException", folder |-> none]
        ELSE IF IsNullOrEmpty(c)
        THEN [ok |-> FALSE, error |-> "Exception", folder |-> none]
        ELSE [ok |-> TRUE, error |-> "",
              folder |-> IF ~IsPathRooted(c.path)
                         THEN GetFullPath(Combine(RootDir(s), c.path))
                         ELSE c.path]

\* the directories data_meta can resolve to
OutputFolders == {GetFullPath(Combine(RootDir("ExportSoundMap"), RelativeMeta)),
                  RootedMeta, DriveRelativeMeta}

\* Path.Combine(outputFolder, "<name>.json")
OutputPath(folder, s) == Combine(folder, Relative(<<OutputFileName(s)>>))

OutputPaths == {OutputPath(d, s) : d \in OutputFolders, s \in Scripts}

\* a path with no file
NoFile == <<0 - 1>>

\* the content of an output file left by an earlier, different export: {"9": "z"}
OldText == <<123, 34, 57, 34, 58, 32, 34, 122, 34, 125>>

\* File.WriteAllText(path, text): the number of code units that reach the
\* file; Len(text) is success, k < Len(text) an IOException after the file was
\* truncated and k units were written, -1 an exception on opening the file
WriteOutcomes(text, faulty) ==
    IF faulty THEN (0 - 1)..Len(text) ELSE {Len(text)}

\* faulty variant: the text is appended to the existing file
WrittenFileAppended(old, text, k) ==
    IF k < 0 THEN old
    ELSE (IF old = NoFile THEN <<>> ELSE old) \o SubSeq(text, 1, k)

\* faulty variant: an existing file is kept
WrittenFileKeepsExisting(old, text, k) ==
    IF k < 0 \/ old # NoFile THEN old ELSE SubSeq(text, 1, k)

\* the file after File.WriteAllText ended with outcome k
WrittenFile(old, text, k) == IF k < 0 THEN old ELSE SubSeq(text, 1, k)

-----------------------------------------------------------------------------
(* The host *)

\* what the host shows: the kind of dialog, its text, and the path it names
Event(kind, text) == [kind |-> kind, text |-> text, path |-> Relative(<<>>)]

\* the script was ended by ScriptError + return, or by an exception
Terminal == {"done", "aborted", "failed"}

-----------------------------------------------------------------------------
(* Record collections *)

\* the record sequences of length at most n over the given names; parent is 0
\* (null) or the position of a record of the collection
RecordSeqs(names, n) ==
    UNION {[1..k -> [name : names, parent : 0..k]] : k \in 0..n}

\* the named records of a collection without parents (sounds, sprites)
Named(S) == [i \in 1..Len(S) |-> [name |-> S[i].name]]

NamedSeqs(names, n) == UNION {[1..k -> [name : names]] : k \in 0..n}

-----------------------------------------------------------------------------
(* The export scripts *)

\* faulty variant: the guard reports the error and goes on (no return)
RunScriptNoReturn(s) ==
    /\ pc \in Terminal \cup {"idle"}
    /\ runsLeft > 0
    /\ runsLeft' = runsLeft - 1
    /\ script' = s
    /\ fsBefore' = fs
    /\ steps' = <<"guard">>
    /\ outputFolder' = Relative(<<>>)
    /\ exportData' = <<>>
    /\ json' = <<>>
    /\ host' = IF Data.IsYYC
               THEN Append(host, Event("ScriptError",
                              "The opened game uses YYC: no code is available."))
               ELSE host
    /\ pc' = "resolve"
    /\ UNCHANGED <<guiVars, held, Data, fs, diskFaulty>>

\* EnsureDataLoaded(); if (Data.IsYYC()) { ScriptError(...); return; }
RunScript(s) ==
    /\ pc \in Terminal \cup {"idle"}
    /\ runsLeft > 0
    /\ runsLeft' = runsLeft - 1
    /\ script' = s
    /\ fsBefore' = fs
    /\ steps' = <<"guard">>
    /\ outputFolder' = Relative(<<>>)
    /\ exportData' = <<>>
    /\ json' = <<>>
    /\ IF Data.IsYYC
       THEN /\ host' = Append(host, Event("ScriptError",
                                "The opened game uses YYC: no code is available."))
            /\ pc' = "aborted"
       ELSE /\ host' = host
            /\ pc' = "resolve"
    /\ UNCHANGED <<guiVars, held, Data, fs, diskFaulty>>

\* string outputFolder = GetMetaOutput(ScriptPath);
ResolvePath ==
    /\ pc = "resolve"
    /\ LET r == GetMetaOutput(script, fs.config)
       IN  IF r.ok
           THEN /\ outputFolder' = r.folder
                /\ fs' = [fs EXCEPT !.dirs = @ \cup {r.folder}]
                /\ host' = host
                /\ pc' = "build"
           ELSE /\ host' = Append(host, Event("Exception", r.error))
                /\ pc' = "failed"
                /\ UNCHANGED <<outputFolder, fs>>
    /\ steps' = Append(steps, "resolve")
    /\ UNCHANGED <<guiVars, held, Data, diskFaulty, script, exportData, json, fsBefore, runsLeft>>

\* the map of the running script: sortedDict or exportData
BuildResult(s) ==
    IF s = "ExportObjectTree"
    THEN HierarchyGrouper(Data.GameObjects)
    ELSE NameIndexProjector(Collection(s))

\* var mapping ... string json = JsonSerializer.Serialize(..., options);
BuildMap ==
    /\ pc = "build"
    /\ LET r == BuildResult(script)
       IN  IF r.ok
           THEN /\ exportData' = r.entries
                /\ json' = Serialize(script = "ExportObjectTree", r.entries)
                /\ host' = host
                /\ pc' = "write"
           ELSE /\ host' = Append(host, Event("Exception", "build"))
                /\ pc' = "failed"
                /\ UNCHANGED <<exportData, json>>
    /\ steps' = Append(steps, "build")
    /\ UNCHANGED <<guiVars, held, Data, fs, diskFaulty, script, outputFolder, fsBefore, runsLeft>>

\* string json = JsonSerializer.Serialize(..., options); on a map already built
SerializeMap ==
    /\ pc = "serialize"
    /\ json' = Serialize(script = "ExportObjectTree", exportData)
    /\ pc' = "write"
    /\ steps' = Append(steps, "build")
    /\ UNCHANGED <<guiVars, held, Data, fs, diskFaulty, script, outputFolder, exportData, host,
                   fsBefore, runsLeft>>

\* faulty variant: a failed write goes unnoticed and the script goes on
WriteFileUnchecked ==
    /\ pc = "write"
    /\ LET path == OutputPath(outputFolder, script)
       IN  \E k \in WriteOutcomes(json, diskFaulty) :
             fs' = [fs EXCEPT !.files[path] = WrittenFile(@, json, k)]
    /\ host' = host
    /\ pc' = "report"
    /\ steps' = Append(steps, "write")
    /\ UNCHANGED <<guiVars, held, Data, diskFaulty, script, outputFolder, exportData, json,
                   fsBefore, runsLeft>>

\* File.WriteAllText(outputPath, json);
WriteFile ==
    /\ pc = "write"
    /\ LET path == OutputPath(outputFolder, script)
       IN  \E k \in WriteOutcomes(json, diskFaulty) :
             /\ fs' = [fs EXCEPT !.files[path] = WrittenFile(@, json, k)]
             /\ IF k = Len(json)
                THEN /\ host' = host
                     /\ pc' = "report"
                ELSE /\ host' = Append(host, Event("Exception", "IOException"))
                     /\ pc' = "failed"
    /\ steps' = Append(steps, "write")
    /\ UNCHANGED <<guiVars, held, Data, diskFaulty, script, outputFolder, exportData, json,
                   fsBefore, runsLeft>>

\* faulty variant: what was opened is never released
DisposeOmitted(h, x) == h

\* the end of a using block, reached normally or by an exception: the
\* resource is disposed (JsonDocument in GetMetaOutput, the stream inside
\* File.WriteAllText)
Dispose(h, x) == h \ {x}

\* GetMetaOutput up to JsonDocument.Parse: File.Exists, File.ReadAllText
\* (which opens and closes paths.json itself) and the parse
ParseConfig ==
    /\ pc = "resolve"
    /\ IF fs.config.file = "object"
       THEN /\ held' = held \cup {"document"}
            /\ pc' = "document"
            /\ UNCHANGED <<host, steps>>
       ELSE /\ host' = Append(host, Event("Exception",
                                          GetMetaOutput(script, fs.config).error))
            /\ pc' = "failed"
            /\ steps' = Append(steps, "resolve")
            /\ held' = held
    /\ UNCHANGED <<guiVars, Data, fs, diskFaulty, script, outputFolder, exportData,
                   json, fsBefore, runsLeft>>

\* the body of the using block: GetProperty and GetString may throw, a null
\* or empty string leaves outputFolder null; the document is disposed
ReadDataMeta ==
    /\ pc = "document"
    /\ held' = Dispose(held, "document")
    /\ LET r == GetMetaOutput(script, fs.config)
       IN  IF r.error \in {"KeyNotFoundException", "InvalidOperationException"}
           THEN /\ host' = Append(host, Event("Exception", r.error))
                /\ pc' = "failed"
                /\ steps' = Append(steps, "resolve")
                /\ outputFolder' = outputFolder
           ELSE /\ outputFolder' = r.folder
                /\ pc' = "directory"
                /\ UNCHANGED <<host, steps>>
    /\ UNCHANGED <<guiVars, Data, fs, diskFaulty, script, exportData, json,
                   fsBefore, runsLeft>>

\* GetMetaOutput after the using block: the null check and the directory
EnsureDirectory ==
    /\ pc = "directory"
    /\ IF outputFolder = Relative(<<>>)
       THEN /\ host' = Append(host, Event("Exception", "Exception"))
            /\ pc' = "failed"
            /\ fs' = fs
       ELSE /\ fs' = [fs EXCEPT !.dirs = @ \cup {outputFolder}]
            /\ host' = host
            /\ pc' = "build"
    /\ steps' = Append(steps, "resolve")
    /\ UNCHANGED <<guiVars, held, Data, diskFaulty, script, outputFolder,
                   exportData, json, fsBefore, runsLeft>>

\* File.WriteAllText, first half: the file is opened and truncated, or
\* opening it throws
OpenOutput ==
    /\ pc = "write"
    /\ LET path == OutputPath(outputFolder, script)
       IN  \E k \in WriteOutcomes(json, diskFaulty) :
             IF k < 0
             THEN /\ fs' = [fs EXCEPT !.files[path] = WrittenFile(@, json, k)]
                  /\ host' = Append(host, Event("Exception", "IOException"))
                  /\ pc' = "failed"
                  /\ steps' = Append(steps, "write")
                  /\ held' = held
             ELSE /\ fs' = [fs EXCEPT !.files[path] = WrittenFile(@, json, 0)]
                  /\ held' = held \cup {"output"}
                  /\ pc' = "writing"
                  /\ UNCHANGED <<host, steps>>
    /\ UNCHANGED <<guiVars, Data, diskFaulty, script, outputFolder, exportData,
                   json, fsBefore, runsLeft>>

\* File.WriteAllText, second half: the text is written, wholly or up to an
\* I/O error, and the file is closed
WriteText ==
    /\ pc = "writing"
    /\ held' = Dispose(held, "output")
    /\ LET path == OutputPath(outputFolder, script)
       IN  \E k \in WriteOutcomes(json, diskFaulty) \ {0 - 1} :
             /\ fs' = [fs EXCEPT !.files[path] = WrittenFile(@, json, k)]
             /\ IF k = Len(json)
                THEN /\ host' = host
                     /\ pc' = "report"
                ELSE /\ host' = Append(host, Event("Exception", "IOException"))
                     /\ pc' = "failed"
    /\ steps' = Append(steps, "write")
    /\ UNCHANGED <<guiVars, Data, diskFaulty, script, outputFolder, exportData,
                   json, fsBefore, runsLeft>>

\* ScriptMessage($"Exported ... to:\n{outputPath}");
Report ==
    /\ pc = "report"
    /\ host' = Append(host, [Event("ScriptMessage", OutputFileName(script))
                               EXCEPT !.path = OutputPath(outputFolder, script)])
    /\ pc' = "done"
    /\ steps' = Append(steps, "report")
    /\ UNCHANGED <<guiVars, held, Data, fs, diskFaulty, script, outputFolder, exportData, json,
                   fsBefore, runsLeft>>

-----------------------------------------------------------------------------
(* The ImGui bindings at rest *)

\* no GlfwRenderer object yet: cdef bint _initialized is zero before __init__;
\* life tells how __init__ ended, freed whether __dealloc__ has run
NoRenderer == [life |-> "none", freed |-> FALSE, initialized |-> FALSE]

\* the ImGui context before any backend is initialized: neither backend is
\* up, no font texture is held, the style-color stack is empty
NoBackend == [glfw |-> FALSE, gl3 |-> FALSE, fontTextures |-> 0, styleColors |-> 0]

\* no binding was called yet
NoReturn == [call |-> "", args |-> <<>>, kind |-> "none", type |-> "", value |-> <<>>]

\* the bindings are not in use (while an export script runs)
GuiIdle ==
    /\ renderer = NoRenderer
    /\ backend = NoBackend
    /\ calls = <<>>
    /\ ret = NoReturn

\* the export scripts are not in use (while the bindings are called)
ExportIdle ==
    /\ Data = [Sounds |-> <<>>, Sprites |-> <<>>, GameObjects |-> <<>>,
               IsYYC |-> FALSE]
    /\ fs = [config |-> [file |-> "absent", data_meta |-> "missing",
                         path |-> Relative(<<>>)],
             dirs |-> {},
             files |-> [p \in OutputPaths |-> NoFile]]
    /\ diskFaulty = FALSE
    /\ pc = "idle"
    /\ script = "ExportSoundMap"
    /\ outputFolder = Relative(<<>>)
    /\ exportData = <<>>
    /\ json = <<>>
    /\ host = <<>>
    /\ fsBefore = fs
    /\ steps = <<>>
    /\ runsLeft = 0
    /\ held = {}

\* an entry of the call log: the backend function, the binding that called
\* it, and whether the two backends were initialized at that moment
Call(fn, by, b) == [fn |-> fn, by |-> by, glfw |-> b.glfw, gl3 |-> b.gl3]

\* the process goes on as long as no call ended it
Running == ret.kind \notin {"abort", "segfault"}

-----------------------------------------------------------------------------
(* The core bindings: begin_tab_item, push_style_color, input_text *)

\* what a binding call leaves in ret: the binding and its arguments, how the
\* call ended (return, raise, or the end of the process), and the type and
\* value of what was returned or raised
Returned(call, args, type, value) ==
    [call |-> call, args |-> args, kind |-> "return", type |-> type,
     value |-> value]

Raised(call, args, type) ==
    [call |-> call, args |-> args, kind |-> "raise", type |-> type,
     value |-> <<>>]

\* def begin_tab_item(str label, opened=None, int flags=0): opened is None,
\* False or True; igBeginTabItem says whether the tab is selected and may
\* clear *p_open
BeginTabItem ==
    /\ Running
    /\ Len(calls) < MaxCalls
    /\ \E opened \in {"None", "False", "True"}, selected \in BOOLEAN,
          closed \in BOOLEAN :
          LET c_opened == opened = "True" /\ ~closed
          IN  /\ opened = "None" => ~closed
              /\ ret' = IF opened = "None"
                        THEN Returned("begin_tab_item", [opened |-> opened],
                                      "tuple", <<selected, TRUE>>)
                        ELSE Returned("begin_tab_item", [opened |-> opened],
                                      "tuple", <<selected, c_opened>>)
    /\ calls' = Append(calls, Call("igBeginTabItem", "begin_tab_item", backend))
    /\ UNCHANGED <<exportVars, renderer, backend>>

\* a Python value passed as a colour argument: an int (negative, in the
\* range of ImU32, or beyond it), a float, a str, or a tuple or list with its
\* length and whether its first four components are numbers
PyValue(type, range, len, numeric) ==
    [type |-> type, range |-> range, len |-> len, numeric |-> numeric]

PyInt(range) == PyValue("int", range, 0, TRUE)

PyFloat == PyValue("float", "", 0, TRUE)

PyStr == PyValue("str", "", 0, FALSE)

\* the values a single colour argument is drawn from
SingleValues ==
    {PyInt(r) : r \in {"negative", "u32", "beyond"}}
    \cup {PyFloat, PyStr}
    \cup {PyValue(t, "", n, num) :
            t \in {"tuple", "list"}, n \in {0, 3, 4, 5}, num \in BOOLEAN}

\* the values one of several components is drawn from
ComponentValues == {PyFloat, PyStr}

\* the argument tuples *args of push_style_color
ArgTuples ==
    [1..1 -> SingleValues]
    \cup UNION {[1..n -> ComponentValues] : n \in (0..MaxArgs) \ {1}}

\* cimgui.igPushStyleColor_Vec4 / _U32: one more colour on the stack
PushStyleColorBackend(b) == [b EXCEPT !.styleColors = @ + 1]

\* faulty variant: the colour is pushed before the arguments are looked at
PushStyleColorEager(args) ==
    IF Len(args) = 1 \/ Len(args) = 4
    THEN {[push |-> "igPushStyleColor_Vec4", raise |-> ""]}
    ELSE {[push |-> "igPushStyleColor_Vec4", raise |-> "ValueError"]}

\* the body of push_style_color: which backend function is called, if any,
\* and which exception is raised, if any; the conversion of a float to ImU32
\* is accepted or refused depending on the Cython that built the module
PushStyleColorBody(args) ==
    LET Pushes(fn) == [push |-> fn, raise |-> ""]
        Raises(e) == [push |-> "", raise |-> e]
    IN  IF Len(args) = 1
        THEN IF args[1].type \in {"tuple", "list"}
             THEN IF args[1].numeric \/ args[1].len = 0
                  THEN {Pushes("igPushStyleColor_Vec4")}
                  ELSE {Raises("TypeError")}
             ELSE IF args[1].type = "int"
             THEN IF args[1].range = "u32"
                  THEN {Pushes("igPushStyleColor_U32")}
                  ELSE {Raises("OverflowError")}
             ELSE IF args[1].type = "float"
             THEN {Pushes("igPushStyleColor_U32"), Raises("TypeError")}
             ELSE {Raises("TypeError")}
        ELSE IF Len(args) = 4
        THEN IF \A i \in 1..4 : args[i].type \in {"int", "float"}
             THEN {Pushes("igPushStyleColor_Vec4")}
             ELSE {Raises("TypeError")}
        ELSE {Raises("ValueError")}

\* def push_style_color(int idx, *args)
PushStyleColor ==
    /\ Running
    /\ Len(calls) < MaxCalls
    /\ \E args \in ArgTuples : \E o \in PushStyleColorBody(args) :
          /\ ret' = IF o.raise = ""
                    THEN Returned("push_style_color", args, "NoneType", <<>>)
                    ELSE Raised("push_style_color", args, o.raise)
          /\ IF o.push = ""
             THEN UNCHANGED <<backend, calls>>
             ELSE /\ backend' = PushStyleColorBackend(backend)
                  /\ calls' = Append(calls, Call(o.push, "push_style_color", backend))
    /\ UNCHANGED <<exportVars, renderer>>

\* cdef char _input_buffer[65536]
InputBufferSize == 65536

Min(a, b) == IF a <= b THEN a ELSE b

\* the values of the C int buffer_size, and the lengths of the encoded value
BufferSizes == {0 - 1, 0, 1, 256, 65536, 65537}

ValueLengths == {0, 255, 65535, 70000}

\* faulty variant: the size is clamped from below as well
ActualSizeClamped(buffer_size) ==
    IF buffer_size < 1 THEN 1 ELSE Min(buffer_size, InputBufferSize)

\* cdef int actual_size = min(buffer_size, 65536)
ActualSize(buffer_size) == Min(buffer_size, InputBufferSize)

\* min(len(b_value), actual_size - 1): the number of bytes handed to memcpy
\* and the index the terminating zero is written at
Copied(len, actual_size) == Min(len, actual_size - 1)

\* def input_text / def input_text_multiline: the value is copied into the
\* global buffer and terminated, then the widget is called; a negative count
\* is undefined behaviour (memcpy takes it as a huge size_t, the zero is
\* written before the buffer): the process dies or goes on
InputText ==
    /\ Running
    /\ Len(calls) < MaxCalls
    /\ \E fn \in {"input_text", "input_text_multiline"}, len \in ValueLengths,
          buffer_size \in BufferSizes, changed \in BOOLEAN :
          LET actual_size == ActualSize(buffer_size)
              n == Copied(len, actual_size)
              args == [len |-> len, buffer_size |-> buffer_size]
              locals == [changed |-> changed, actual_size |-> actual_size,
                         copied |-> n, terminator |-> n]
          IN  \/ /\ ret' = Returned(fn, args, "tuple", locals)
                 /\ calls' = Append(calls,
                       Call(IF fn = "input_text" THEN "igInputText"
                            ELSE "igInputTextMultiline", fn, backend))
              \/ /\ n < 0
                 /\ ~changed
                 /\ ret' = [Returned(fn, args, "", locals) EXCEPT !.kind = "segfault"]
                 /\ calls' = calls
    /\ UNCHANGED <<exportVars, renderer, backend>>

-----------------------------------------------------------------------------
(* The GLFW + OpenGL3 renderer *)

\* what the backend functions do to the backends: the OpenGL3 backend
\* creates its font texture with the first frame and destroys its device
\* objects when it is shut down
GlfwShutdown(b) == [b EXCEPT !.glfw = FALSE]

OpenGL3Shutdown(b) == [b EXCEPT !.gl3 = FALSE, !.fontTextures = 0]

OpenGL3NewFrame(b) == [b EXCEPT !.fontTextures = IF @ = 0 THEN 1 ELSE @]

\* faulty variant: the old font texture is kept
DestroyFontsTextureOmitted(b) == b

DestroyFontsTexture(b) == [b EXCEPT !.fontTextures = 0]

CreateFontsTexture(b, ok) == IF ok THEN [b EXCEPT !.fontTextures = @ + 1] ELSE b

\* the ways a call into a backend that is not initialized ends the process:
\* a failed IM_ASSERT, or the null backend data dereferenced
Crashes == {"abort", "segfault"}

Crashed(call, how) == [Returned(call, <<>>, "", <<>>) EXCEPT !.kind = how]

\* the state a method body leaves: the object, the backends, the call log,
\* and the exception raised ("" for none)
Left(r, b, c, raise) == [r |-> r, b |-> b, c |-> c, raise |-> raise]

\* faulty variant: _initialized is set before the OpenGL3 backend is initialized
InitBodyEarlyFlag(r, b, c, windowOk, glfwOk, gl3Ok) ==
    LET c1 == Append(c, Call("ImGui_ImplGlfw_InitForOpenGL", "__init__", b))
        b1 == [b EXCEPT !.glfw = TRUE]
        c2 == Append(c1, Call("ImGui_ImplOpenGL3_Init", "__init__", b1))
        c3 == Append(c2, Call("ImGui_ImplGlfw_Shutdown", "__init__", b1))
    IN  IF ~windowOk
        THEN Left([r EXCEPT !.life = "bad_window"], b, c, "TypeError")
        ELSE IF ~glfwOk
        THEN Left([r EXCEPT !.life = "glfw_failed", !.initialized = FALSE],
                  b, c1, "RuntimeError")
        ELSE IF ~gl3Ok
        THEN Left([r EXCEPT !.life = "gl3_failed", !.initialized = TRUE],
                  GlfwShutdown(b1), c3, "RuntimeError")
        ELSE Left([r EXCEPT !.life = "constructed", !.initialized = TRUE],
                  [b1 EXCEPT !.gl3 = TRUE], c2, "")

\* the body of __init__: the window handle is converted, the GLFW backend
\* and then the OpenGL3 backend are initialized; if the second fails, the
\* first is shut down
InitBody(r, b, c, windowOk, glfwOk, gl3Ok) ==
    LET c1 == Append(c, Call("ImGui_ImplGlfw_InitForOpenGL", "__init__", b))
        b1 == [b EXCEPT !.glfw = TRUE]
        c2 == Append(c1, Call("ImGui_ImplOpenGL3_Init", "__init__", b1))
        c3 == Append(c2, Call("ImGui_ImplGlfw_Shutdown", "__init__", b1))
    IN  IF ~windowOk
        THEN Left([r EXCEPT !.life = "bad_window"], b, c, "TypeError")
        ELSE IF ~glfwOk
        THEN Left([r EXCEPT !.life = "glfw_failed", !.initialized = FALSE],
                  b, c1, "RuntimeError")
        ELSE IF ~gl3Ok
        THEN Left([r EXCEPT !.life = "gl3_failed", !.initialized = FALSE],
                  GlfwShutdown(b1), c3, "RuntimeError")
        ELSE Left([r EXCEPT !.life = "constructed", !.initialized = TRUE],
                  [b1 EXCEPT !.gl3 = TRUE], c2, "")

\* faulty variant: the backends are shut down whatever _initialized says
ShutdownBodyUnguarded(r, b, c, by) ==
    Left([r EXCEPT !.initialized = FALSE],
         GlfwShutdown(OpenGL3Shutdown(b)),
         c \o <<Call("ImGui_ImplOpenGL3_Shutdown", by, b),
                Call("ImGui_ImplGlfw_Shutdown", by, OpenGL3Shutdown(b))>>,
         "")

\* the body of shutdown, called by the user or by __dealloc__
ShutdownBody(r, b, c, by) ==
    IF r.initialized
    THEN Left([r EXCEPT !.initialized = FALSE],
              GlfwShutdown(OpenGL3Shutdown(b)),
              c \o <<Call("ImGui_ImplOpenGL3_Shutdown", by, b),
                     Call("ImGui_ImplGlfw_Shutdown", by, OpenGL3Shutdown(b))>>,
              "")
    ELSE Left(r, b, c, "")

\* an object a method can be called on
Alive == renderer.life # "none" /\ ~renderer.freed

\* renderer = GlfwRenderer(window)
Construct ==
    /\ renderer.life = "none"
    /\ \E windowOk \in BOOLEAN, glfwOk \in BOOLEAN, gl3Ok \in BOOLEAN :
          LET o == InitBody(renderer, backend, calls, windowOk, glfwOk, gl3Ok)
          IN  /\ renderer' = o.r
              /\ backend' = o.b
              /\ calls' = o.c
              /\ ret' = IF o.raise = ""
                        THEN Returned("__init__", <<>>, "NoneType", <<>>)
                        ELSE Raised("__init__", <<>>, o.raise)
    /\ UNCHANGED exportVars

\* renderer.process_inputs()
ProcessInputs ==
    /\ Alive /\ Running
    /\ Len(calls) < MaxBackendCalls
    /\ LET c1 == Append(calls, Call("ImGui_ImplOpenGL3_NewFrame", "process_inputs",
                                    backend))
           b1 == OpenGL3NewFrame(backend)
           c2 == Append(c1, Call("ImGui_ImplGlfw_NewFrame", "process_inputs", b1))
       IN  IF ~backend.gl3
           THEN /\ calls' = c1
                /\ backend' = backend
                /\ \E how \in Crashes : ret' = Crashed("process_inputs", how)
           ELSE IF ~backend.glfw
           THEN /\ calls' = c2
                /\ backend' = b1
                /\ \E how \in Crashes : ret' = Crashed("process_inputs", how)
           ELSE /\ calls' = c2
                /\ backend' = b1
                /\ ret' = Returned("process_inputs", <<>>, "NoneType", <<>>)
    /\ UNCHANGED <<exportVars, renderer>>

\* renderer.render(draw_data)
Render ==
    /\ Alive /\ Running
    /\ Len(calls) < MaxBackendCalls
    /\ \E isDrawData \in BOOLEAN :
          IF ~isDrawData
          THEN /\ ret' = Raised("render", <<>>, "TypeError")
               /\ calls' = calls
          ELSE /\ calls' = Append(calls, Call("ImGui_ImplOpenGL3_RenderDrawData",
                                              "render", backend))
               /\ IF backend.gl3
                  THEN ret' = Returned("render", <<>>, "NoneType", <<>>)
                  ELSE \E how \in Crashes : ret' = Crashed("render", how)
    /\ UNCHANGED <<exportVars, renderer, backend>>

\* renderer.shutdown()
Shutdown ==
    /\ Alive /\ Running
    /\ Len(calls) < MaxBackendCalls
    /\ LET o == ShutdownBody(renderer, backend, calls, "shutdown")
       IN  /\ renderer' = o.r
           /\ backend' = o.b
           /\ calls' = o.c
    /\ ret' = Returned("shutdown", <<>>, "NoneType", <<>>)
    /\ UNCHANGED exportVars

\* renderer.refresh_font_texture()
RefreshFontTexture ==
    /\ Alive /\ Running
    /\ Len(calls) < MaxBackendCalls
    /\ LET by == "refresh_font_texture"
           c1 == Append(calls, Call("ImGui_ImplOpenGL3_DestroyFontsTexture", by,
                                    backend))
           b1 == DestroyFontsTexture(backend)
           c2 == Append(c1, Call("ImGui_ImplOpenGL3_CreateFontsTexture", by, b1))
       IN  IF ~backend.gl3
           THEN /\ calls' = c1
                /\ backend' = backend
                /\ \E how \in Crashes : ret' = Crashed(by, how)
           ELSE \E ok \in BOOLEAN :
                  /\ calls' = c2
                  /\ backend' = CreateFontsTexture(b1, ok)
                  /\ ret' = IF ok THEN Returned(by, <<>>, "NoneType", <<>>)
                            ELSE Raised(by, <<>>, "RuntimeError")
    /\ UNCHANGED <<exportVars, renderer>>

\* the last reference to the object goes away: __dealloc__ calls shutdown()
Dealloc ==
    /\ Alive /\ Running
    /\ LET o == ShutdownBody(renderer, backend, calls, "__dealloc__")
       IN  /\ renderer' = [o.r EXCEPT !.freed = TRUE]
           /\ backend' = o.b
           /\ calls' = o.c
    /\ ret' = Returned("__dealloc__", <<>>, "NoneType", <<>>)
    /\ UNCHANGED exportVars

-----------------------------------------------------------------------------
(* Specifications *)

\* the file system before any export: paths.json in one of its states, the
\* output directories absent or present, the output files absent or old
InitFs ==
    \E c \in ConfigStates, prior \in {NoFile, OldText}, made \in BOOLEAN :
        /\ prior # NoFile => made
        /\ fs = [config |-> c,
                 dirs |-> IF made THEN OutputFolders ELSE {},
                 files |-> [p \in OutputPaths |-> prior]]

\* the whole scripts, from the host's idle state; the three collections hold
\* the same records (sounds and sprites without the parent)
Init ==
    /\ \E S \in RecordSeqs({<<97>>, NullRef}, MaxScriptRecords), yyc \in BOOLEAN :
          Data = [Sounds |-> Named(S), Sprites |-> Named(S), GameObjects |-> S,
                  IsYYC |-> yyc]
    /\ InitFs
    /\ diskFaulty \in BOOLEAN
    /\ pc = "idle"
    /\ script = "ExportSoundMap"
    /\ outputFolder = Relative(<<>>)
    /\ exportData = <<>>
    /\ json = <<>>
    /\ host = <<>>
    /\ fsBefore = fs
    /\ steps = <<>>
    /\ runsLeft = MaxRuns
    /\ held = {}
    /\ GuiIdle

Next ==
    \/ \E s \in Scripts : RunScript(s)
    \/ ResolvePath
    \/ BuildMap
    \/ WriteFile
    \/ Report

Spec == Init /\ [][Next]_vars

\* two script runs in a row on the same data, configuration and file system
InitTwice ==
    /\ \E S \in RecordSeqs({<<97>>, NullRef}, MaxScriptRecords) :
          Data = [Sounds |-> Named(S), Sprites |-> Named(S), GameObjects |-> S,
                  IsYYC |-> FALSE]
    /\ InitFs
    /\ diskFaulty \in BOOLEAN
    /\ pc = "idle"
    /\ script = "ExportSoundMap"
    /\ outputFolder = Relative(<<>>)
    /\ exportData = <<>>
    /\ json = <<>>
    /\ host = <<>>
    /\ fsBefore = fs
    /\ steps = <<>>
    /\ runsLeft = 2
    /\ held = {}
    /\ GuiIdle

SpecTwice == InitTwice /\ [][Next]_vars

\* one script run, followed statement by statement through GetMetaOutput and
\* File.WriteAllText
InitHandles ==
    /\ \E S \in RecordSeqs({<<97>>, NullRef}, MaxScriptRecords), yyc \in BOOLEAN :
          Data = [Sounds |-> Named(S), Sprites |-> Named(S), GameObjects |-> S,
                  IsYYC |-> yyc]
    /\ InitFs
    /\ diskFaulty \in BOOLEAN
    /\ pc = "idle"
    /\ script = "ExportSoundMap"
    /\ outputFolder = Relative(<<>>)
    /\ exportData = <<>>
    /\ json = <<>>
    /\ host = <<>>
    /\ fsBefore = fs
    /\ steps = <<>>
    /\ runsLeft = 1
    /\ held = {}
    /\ GuiIdle

NextHandles ==
    \/ \E s \in Scripts : RunScript(s)
    \/ ParseConfig
    \/ ReadDataMeta
    \/ EnsureDirectory
    \/ BuildMap
    \/ OpenOutput
    \/ WriteText
    \/ Report

SpecHandles == InitHandles /\ [][NextHandles]_vars

\* four script runs in a row, in any order, on a sound disk and a valid
\* paths.json; sounds, sprites and objects hold different records
InitAll ==
    /\ \E S \in RecordSeqs({<<97>>, NullRef}, MaxScriptRecords) :
       \E snd \in {<<>>, <<[name |-> <<97>>]>>} :
       \E spr \in {<<>>, <<[name |-> <<66>>]>>} :
          Data = [Sounds |-> snd, Sprites |-> spr, GameObjects |-> S,
                  IsYYC |-> FALSE]
    /\ InitFs
    /\ fs.config.data_meta = "string"
    /\ fs.config.path = RelativeMeta
    /\ fs.dirs # {}
    /\ diskFaulty = FALSE
    /\ pc = "idle"
    /\ script = "ExportSoundMap"
    /\ outputFolder = Relative(<<>>)
    /\ exportData = <<>>
    /\ json = <<>>
    /\ host = <<>>
    /\ fsBefore = fs
    /\ steps = <<>>
    /\ runsLeft = 4
    /\ held = {}
    /\ GuiIdle

SpecAll == InitAll /\ [][Next]_vars

\* the core bindings, called up to MaxCalls times inside a frame
InitBindings ==
    /\ ExportIdle
    /\ GuiIdle

NextBindings ==
    \/ BeginTabItem
    \/ PushStyleColor
    \/ InputText

SpecBindings == InitBindings /\ [][NextBindings]_vars

\* one GlfwRenderer, from before its construction to after its deallocation
InitRenderer ==
    /\ ExportIdle
    /\ GuiIdle

NextRenderer ==
    \/ Construct
    \/ ProcessInputs
    \/ Render
    \/ Shutdown
    \/ RefreshFontTexture
    \/ Dealloc

SpecRenderer == InitRenderer /\ [][NextRenderer]_vars

\* a script that passed the guard and resolved its folder, about to build
InitBuild(s) ==
    /\ fs = [config |-> [file |-> "object", data_meta |-> "string",
                         path |-> RelativeMeta],
             dirs |-> OutputFolders,
             files |-> [p \in OutputPaths |-> NoFile]]
    /\ diskFaulty = FALSE
    /\ pc = "build"
    /\ script = s
    /\ outputFolder = GetMetaOutput(s, fs.config).folder
    /\ exportData = <<>>
    /\ json = <<>>
    /\ host = <<>>
    /\ fsBefore = fs
    /\ steps = <<"guard", "resolve">>
    /\ runsLeft = 0
    /\ held = {}
    /\ GuiIdle

\* the index-map scripts over every collection of at most MaxRecords records
InitProjector ==
    /\ \E S \in NamedSeqs(NameUniverse \cup {NullRef}, MaxRecords) :
          Data = [Sounds |-> S, Sprites |-> S, GameObjects |-> S, IsYYC |-> FALSE]
    /\ \E s \in IndexScripts : InitBuild(s)

NextProjector == BuildMap \/ WriteFile \/ Report

SpecProjector == InitProjector /\ [][NextProjector]_vars

\* the JSON writer on its own: a script that built a map over at most
\* MaxJsonNames names, about to serialize it
InitJson ==
    /\ Data = [Sounds |-> <<>>, Sprites |-> <<>>, GameObjects |-> <<>>,
               IsYYC |-> FALSE]
    /\ fs = [config |-> [file |-> "object", data_meta |-> "string",
                         path |-> RelativeMeta],
             dirs |-> OutputFolders,
             files |-> [p \in OutputPaths |-> NoFile]]
    /\ diskFaulty = FALSE
    /\ pc = "serialize"
    /\ script \in {"ExportObjectMap", "ExportObjectTree"}
    /\ outputFolder = GetMetaOutput(script, fs.config).folder
    /\ \E k \in 0..MaxJsonNames : \E q \in [1..k -> JsonNames] :
          exportData = IF script = "ExportObjectTree" THEN ListMapOf(q)
                       ELSE StringMapOf(q)
    /\ json = <<>>
    /\ host = <<>>
    /\ fsBefore = fs
    /\ steps = <<"guard", "resolve">>
    /\ runsLeft = 0
    /\ held = {}
    /\ GuiIdle

NextJson == SerializeMap

SpecJson == InitJson /\ [][NextJson]_vars

\* the index-map scripts over collections of up to MaxLongRecords records
\* named "a" or "B"
InitLong ==
    /\ \E S \in NamedSeqs({<<97>>, <<66>>}, MaxLongRecords) :
          Data = [Sounds |-> S, Sprites |-> S, GameObjects |-> S, IsYYC |-> FALSE]
    /\ \E s \in IndexScripts : InitBuild(s)

\* the step that computes exportData and its JSON text
NextLong == BuildMap

SpecLong == InitLong /\ [][NextLong]_vars

\* the hierarchy script over every collection of at most MaxRecords records
InitGrouper ==
    /\ \E S \in RecordSeqs(NameUniverse, MaxRecords) :
          Data = [Sounds |-> <<>>, Sprites |-> <<>>, GameObjects |-> S,
                  IsYYC |-> FALSE]
    /\ InitBuild("ExportObjectTree")

\* the step that computes sortedDict and its JSON text
NextGrouper == BuildMap

SpecGrouper == InitGrouper /\ [][NextGrouper]_vars

-----------------------------------------------------------------------------
(* Properties *)

\* the running script has computed its map and serialized it
Built == json # <<>>

\* the decimal numeral of an index below 100, digit by digit
Numeral(i) == IF i < 10 THEN <<48 + i>> ELSE <<48 + (i \div 10), 48 + (i % 10)>>

\* the number of positions of the sequence q that hold x
Count(q, x) == Cardinality({i \in 1..Len(q) : q[i] = x})

\* the value stored under key k, or the empty list when k is no key
ValueAt(entries, k) ==
    IF \E i \in 1..Len(entries) : entries[i].key = k
    THEN entries[CHOOSE i \in 1..Len(entries) : entries[i].key = k].value
    ELSE <<>>

\* C1: an index-map script fails to build only on a null Name, and the map it
\* builds from a collection of n records has exactly n entries, whose keys
\* are pairwise different and are exactly "0", ..., str(n-1).
C1_IndexMapKeys ==
    LET S == Collection(script)
        n == Len(S)
    IN  /\ ("build" \in {steps[i] : i \in 1..Len(steps)} /\ ~Built)
              => \E i \in 1..n : ~NameReadable(S[i])
        /\ Built =>
              /\ Len(exportData) = n
              /\ KeySet(exportData) = {Numeral(i) : i \in 0..(n - 1)}
              /\ Cardinality(KeySet(exportData)) = n

\* C1 witness: an index map of at least two records was built and written
C1_Witness ==
    /\ script \in IndexScripts
    /\ pc = "done"
    /\ Len(Collection(script)) >= 2
    /\ Len(exportData) = Len(Collection(script))

\* C2: for every position i of the collection, the built index map holds
\* exactly one entry with key str(i) and its value is S[i].name; equal names at
\* two positions both appear.
C2_IndexMapValues ==
    LET S == Collection(script)
    IN  Built =>
          \A i \in 1..Len(S) :
             /\ Cardinality({j \in 1..Len(exportData) :
                               exportData[j].key = Numeral(i - 1)}) = 1
             /\ ValueAt(exportData, Numeral(i - 1)) = S[i].name

\* C2 witness: a written map of three records, the first and third with the
\* same name and the second with another
C2_Witness ==
    LET S == Collection(script)
    IN  /\ script \in IndexScripts
        /\ pc = "done"
        /\ Len(S) = 3
        /\ S[1].name = S[3].name
        /\ S[2].name # S[1].name
        /\ ValueAt(exportData, <<48>>) = ValueAt(exportData, <<50>>)

\* C3: with the data in YYC mode a started script is ended by the guard: it
\* ran no step but the guard (paths.json not read), the file system is as it
\* was (no directory created, no file touched), no map or text was computed,
\* the host showed the error and no success message.
C3_YYCGuardAborts ==
    (Data.IsYYC /\ pc # "idle") =>
        /\ pc = "aborted"
        /\ steps = <<"guard">>
        /\ fs = fsBefore
        /\ outputFolder = Relative(<<>>)
        /\ exportData = <<>>
        /\ json = <<>>
        /\ host # <<>>
        /\ host[Len(host)].kind = "ScriptError"
        /\ \A i \in 1..Len(host) : host[i].kind # "ScriptMessage"

\* C3 witness: a script was started on YYC data and ended at the guard
C3_Witness == Data.IsYYC /\ pc = "aborted" /\ steps = <<"guard">>

\* the records the hierarchy script groups under the parent name p
ChildrenOf(S, p) ==
    {i \in 1..Len(S) : S[i].parent # 0 /\ S[S[i].parent].name = p}

\* the sequence q is non-decreasing under the comparison Cmp
NonDecreasing(q, Cmp(_, _)) == \A i \in 1..(Len(q) - 1) : Cmp(q[i], q[i + 1]) <= 0

\* the sequence q is strictly increasing under the comparison Cmp
Increasing(q, Cmp(_, _)) == \A i \in 1..(Len(q) - 1) : Cmp(q[i], q[i + 1]) < 0

\* C4 (as claimed): in every terminal state each output file is what it was
\* before the run, or is the complete serialization of the full map.
C4_NoPartialOutput ==
    pc \in Terminal =>
        \A p \in OutputPaths :
            \/ fs.files[p] = fsBefore.files[p]
            \/ /\ p = OutputPath(outputFolder, script)
               /\ BuildResult(script).ok
               /\ fs.files[p] = Serialize(script = "ExportObjectTree",
                                          BuildResult(script).entries)

\* C5: every key of the hierarchy map has a non-empty child list and is the
\* name of the parent of some record; a collection without parented records
\* gives the empty map.
C5_NoEmptyChildList ==
    LET S == Data.GameObjects
    IN  (script = "ExportObjectTree" /\ Built) =>
          /\ \A e \in 1..Len(exportData) :
                /\ exportData[e].value # <<>>
                /\ ChildrenOf(S, exportData[e].key) # {}
          /\ (\A i \in 1..Len(S) : S[i].parent = 0) => exportData = <<>>

\* C5 witness: a built, non-empty hierarchy map of a collection holding a
\* record that is nobody's parent, whose name is no key
C5_Witness ==
    LET S == Data.GameObjects
    IN  /\ script = "ExportObjectTree"
        /\ pc = "write"
        /\ exportData # <<>>
        /\ \E i \in 1..Len(S) :
              /\ \A j \in 1..Len(S) : S[j].parent # i
              /\ S[i].name \notin KeySet(exportData)

\* C6 (as claimed): every child list of the hierarchy map is non-decreasing
\* under ordinal (code-point) comparison.
C6_ChildrenOrdinal ==
    (script = "ExportObjectTree" /\ Built) =>
        \A e \in 1..Len(exportData) :
            NonDecreasing(exportData[e].value, OrdinalCompare)

\* C6 (amended): every child list of the hierarchy map is non-decreasing
\* under the default string comparer (String.CompareTo, culture-sensitive).
C6_ChildrenDefaultOrder ==
    (script = "ExportObjectTree" /\ Built) =>
        \A e \in 1..Len(exportData) :
            NonDecreasing(exportData[e].value, DefaultCompare)

\* C6 witness: a built child list of two names that the source lists in the
\* other order
C6_Witness ==
    LET S == Data.GameObjects
    IN  /\ script = "ExportObjectTree"
        /\ pc = "write"
        /\ \E e \in 1..Len(exportData) :
              LET v == exportData[e].value
              IN  /\ Len(v) >= 2
                  /\ v[1] # v[2]
                  /\ \E i, j \in 1..Len(S) :
                        /\ i < j
                        /\ S[i].name = v[2]
                        /\ S[j].name = v[1]
                        /\ {i, j} \subseteq ChildrenOf(S, exportData[e].key)

\* C7 (as claimed): the keys of the hierarchy map, in emission order, are
\* strictly increasing under ordinal comparison.
C7_KeysOrdinal ==
    (script = "ExportObjectTree" /\ Built) =>
        Increasing(Keys(exportData), OrdinalCompare)

\* C7 (amended): the keys of the hierarchy map, in emission order, are
\* strictly increasing under the default string comparer, whatever the order
\* in which the parents are first met.
C7_KeysDefaultOrder ==
    (script = "ExportObjectTree" /\ Built) =>
        Increasing(Keys(exportData), DefaultCompare)

\* C7 witness: a built map of two keys or more whose order is not the order
\* in which the parents are first met
C7_Witness ==
    /\ script = "ExportObjectTree"
    /\ pc = "write"
    /\ Len(exportData) >= 2
    /\ Keys(exportData) # Keys(InheritanceDict(Data.GameObjects).entries)

\* C8: the hierarchy script never fails on a collection of named records, the
\* keys are pairwise different, and for every name p and every name c the list
\* under p holds c as often as there are records named c whose parent is named
\* p; so the lists together hold one entry per parented record.
C8_ChildMultiset ==
    LET S == Data.GameObjects
        names == {S[i].name : i \in 1..Len(S)}
    IN  script = "ExportObjectTree" =>
          /\ pc # "failed"
          /\ Built =>
                /\ Cardinality(KeySet(exportData)) = Len(exportData)
                /\ KeySet(exportData) \subseteq names
                /\ \A p \in names : \A c \in names :
                      Count(ValueAt(exportData, p), c)
                        = Cardinality({i \in ChildrenOf(S, p) : S[i].name = c})
                /\ \A p \in names :
                      Len(ValueAt(exportData, p)) = Cardinality(ChildrenOf(S, p))

\* C8 witness: a built map where one key holds the same child name twice,
\* the two children have different parent records of that one name, and a
\* record without parent is in the collection
C8_Witness ==
    LET S == Data.GameObjects
    IN  /\ script = "ExportObjectTree"
        /\ pc = "write"
        /\ \E e \in 1..Len(exportData) :
              LET v == exportData[e].value
              IN  /\ Len(v) = 2
                  /\ v[1] = v[2]
                  /\ \E i, j \in ChildrenOf(S, exportData[e].key) :
                        S[i].parent # S[j].parent
        /\ \E i \in 1..Len(S) : S[i].parent = 0

\* C9: a name is listed under key p only if a record of that name has a
\* direct parent named p, and every parented record is listed under the name
\* of its direct parent.
C9_FlatFanOut ==
    LET S == Data.GameObjects
    IN  (script = "ExportObjectTree" /\ Built) =>
          /\ \A e \in 1..Len(exportData) :
                \A k \in 1..Len(exportData[e].value) :
                   \E i \in ChildrenOf(S, exportData[e].key) :
                      S[i].name = exportData[e].value[k]
          /\ \A i \in 1..Len(S) :
                S[i].parent # 0 =>
                   Count(ValueAt(exportData, S[S[i].parent].name), S[i].name) >= 1

\* C9 witness: a built map of a chain a <- b <- c of three names: c is
\* under b and not under a, b is under a and is a key
C9_Witness ==
    LET S == Data.GameObjects
    IN  /\ script = "ExportObjectTree"
        /\ pc = "write"
        /\ \E a, b, c \in 1..Len(S) :
              /\ Cardinality({S[a].name, S[b].name, S[c].name}) = 3
              /\ S[a].parent = 0
              /\ S[b].parent = a
              /\ S[c].parent = b
              /\ ValueAt(exportData, S[b].name) = <<S[c].name>>
              /\ ValueAt(exportData, S[a].name) = <<S[b].name>>

\* C10: a record whose parent is named "" does not make the script fail and
\* is listed under the key "".
C10_EmptyParentName ==
    LET S == Data.GameObjects
    IN  script = "ExportObjectTree" =>
          \A i \in ChildrenOf(S, <<>>) :
             /\ pc # "failed"
             /\ Built =>
                   /\ <<>> \in KeySet(exportData)
                   /\ Count(ValueAt(exportData, <<>>), S[i].name) >= 1

\* C10 witness: a built map whose first key is "" and that has a second key
C10_Witness ==
    /\ script = "ExportObjectTree"
    /\ pc = "write"
    /\ Len(exportData) >= 2
    /\ exportData[1].key = <<>>
    /\ exportData[1].value # <<>>

\* C11 (as claimed): every child name of the hierarchy map belongs to a record
\* whose parent is non-null and has a non-empty name, and "" is no key.
C11_NonEmptyParentName ==
    LET S == Data.GameObjects
    IN  (script = "ExportObjectTree" /\ Built) =>
          /\ <<>> \notin KeySet(exportData)
          /\ \A e \in 1..Len(exportData) :
                \A k \in 1..Len(exportData[e].value) :
                   \E i \in 1..Len(S) :
                      /\ S[i].name = exportData[e].value[k]
                      /\ S[i].parent \in 1..Len(S)
                      /\ S[S[i].parent].name # <<>>

\* C11 (amended): every child name of the hierarchy map belongs to a record
\* whose parent is non-null and is a record of the collection named as the
\* key, whatever that name is; "" is a key exactly when a parented record has
\* a parent named "".
C11_ParentedChildren ==
    LET S == Data.GameObjects
    IN  (script = "ExportObjectTree" /\ Built) =>
          /\ (<<>> \in KeySet(exportData)) <=> (ChildrenOf(S, <<>>) # {})
          /\ \A e \in 1..Len(exportData) :
                \A k \in 1..Len(exportData[e].value) :
                   \E i \in 1..Len(S) :
                      /\ S[i].name = exportData[e].value[k]
                      /\ S[i].parent \in 1..Len(S)
                      /\ S[S[i].parent].name = exportData[e].key

\* C11 witness: a built map with the key "" and a key that is not empty, of a
\* collection that also holds a record without parent
C11_Witness ==
    LET S == Data.GameObjects
    IN  /\ script = "ExportObjectTree"
        /\ pc = "write"
        /\ <<>> \in KeySet(exportData)
        /\ \E e \in 1..Len(exportData) : exportData[e].key # <<>>
        /\ \E i \in 1..Len(S) : S[i].parent = 0

-----------------------------------------------------------------------------
(* The path resolver *)

\* the resolver was called in the current run
Resolved == Len(steps) >= 2

\* the host's last event
LastEvent == host[Len(host)]

NoSuccessMessage == \A i \in 1..Len(host) : host[i].kind # "ScriptMessage"

\* the run ended in the resolver, which left the file system as it was
FailedInResolver(error) ==
    /\ pc = "failed"
    /\ steps = <<"guard", "resolve">>
    /\ host # <<>> /\ LastEvent = Event("Exception", error)
    /\ outputFolder = Relative(<<>>)
    /\ exportData = <<>> /\ json = <<>>
    /\ fs = fsBefore
    /\ NoSuccessMessage

\* C12: when paths.json is absent the resolver fails with a
\* FileNotFoundException before anything else happens: no directory is
\* created, no file is written, no default folder is taken and no success
\* message is shown
C12_AbsentConfigFails ==
    (fs.config.file = "absent" /\ Resolved) =>
        FailedInResolver("FileNotFoundException")

C12_Witness ==
    /\ fs.config.file = "absent"
    /\ pc = "failed"
    /\ fs.dirs = {}

\* C13: when paths.json is an object whose data_meta is missing, null or the
\* empty string, the resolver fails: no directory is created and no export
\* file is written
C13_BlankDataMetaFails ==
    LET c == fs.config
    IN  (/\ c.file = "object"
         /\ \/ c.data_meta \in {"missing", "null"}
            \/ c.data_meta = "string" /\ c.path = Relative(<<>>)
         /\ Resolved) =>
            FailedInResolver(IF c.data_meta = "missing"
                             THEN "KeyNotFoundException" ELSE "Exception")

C13_Witness ==
    /\ fs.config.file = "object"
    /\ fs.config.data_meta = "string"
    /\ fs.config.path = Relative(<<>>)
    /\ pc = "failed"
    /\ fs.dirs = {}

\* the resolver returned a folder in the current run
ReturnedNormally == Len(steps) >= 3 \/ (Len(steps) = 2 /\ pc = "build")

\* the folder a data_meta value stands for: under the project root when it
\* is relative, itself when it is rooted
Meant(p) ==
    IF p.rooted THEN p
    ELSE [rooted |-> TRUE, qualified |-> TRUE, segs |-> <<"proj">> \o p.segs]

\* C14 as stated: the folder the resolver returns is absolute and exists, a
\* relative data_meta resolved against the project root, a rooted one as given
C14_ReturnsAbsolute ==
    ReturnedNormally =>
        /\ outputFolder.rooted /\ outputFolder.qualified
        /\ outputFolder \in fs.dirs
        /\ outputFolder = Meant(fs.config.path)

\* C14, amended: the folder the resolver returns is rooted and exists, a
\* relative data_meta resolved against the project root into an absolute
\* path, a rooted one as given; it is absolute unless data_meta is rooted
\* without naming its drive
C14_ReturnsRooted ==
    ReturnedNormally =>
        /\ outputFolder.rooted
        /\ outputFolder \in fs.dirs
        /\ outputFolder = Meant(fs.config.path)
        /\ outputFolder.qualified <=>
              (~fs.config.path.rooted \/ fs.config.path.qualified)
        /\ fs.dirs = fsBefore.dirs \cup {outputFolder}

C14_Witness ==
    /\ ReturnedNormally
    /\ fs.config.path = RelativeMeta
    /\ outputFolder \notin fsBefore.dirs
    /\ outputFolder \in fs.dirs

-----------------------------------------------------------------------------
(* The output file *)

\* the file the running script writes
OutputFile == fs.files[OutputPath(outputFolder, script)]

\* the text {}
EmptyObject == <<123, 125>>

\* C15: the index-map export of an empty collection does not fail: it builds
\* the empty map, writes {} to its output file and reports success
C15_EmptyCollection ==
    (script \in IndexScripts /\ Collection(script) = <<>>) =>
        /\ pc # "failed"
        /\ Built => exportData = <<>> /\ json = EmptyObject
        /\ pc \in {"report", "done"} => OutputFile = EmptyObject
        /\ pc = "done" => /\ host # <<>>
                          /\ LastEvent.kind = "ScriptMessage"
                          /\ LastEvent.path = OutputPath(outputFolder, script)

C15_Witness ==
    /\ script \in IndexScripts
    /\ Collection(script) = <<>>
    /\ pc = "done"
    /\ OutputFile = EmptyObject

\* the last two things the host showed are success messages for the same
\* output path: the script ran twice in a row and succeeded both times
RanTwice ==
    /\ pc = "done"
    /\ Len(host) >= 2
    /\ host[Len(host)].kind = "ScriptMessage"
    /\ host[Len(host) - 1] = host[Len(host)]

\* C16: after the second of two successful runs of the same exporter on the
\* same records, configuration and output path, the output file holds the
\* same bytes as after the first run
C16_Idempotent ==
    RanTwice => /\ OutputFile = fsBefore.files[OutputPath(outputFolder, script)]
                /\ fs = fsBefore

C16_Witness ==
    /\ RanTwice
    /\ OutputFile # EmptyObject
    /\ OutputFile # OldText

\* the five steps of a successful run
AllSteps == <<"guard", "resolve", "build", "write", "report">>

\* C17: after a successful export the output file holds exactly the
\* serialization of the map of the current records, whatever a file at that
\* path held before, and the run took no step besides the five of the script
C17_FileReplaced ==
    pc = "done" =>
        /\ OutputFile = Serialize(script = "ExportObjectTree",
                                  BuildResult(script).entries)
        /\ OutputFile = json
        /\ steps = AllSteps

C17_Witness ==
    /\ pc = "done"
    /\ fsBefore.files[OutputPath(outputFolder, script)] = OldText
    /\ OutputFile # OldText
    /\ exportData # <<>>

-----------------------------------------------------------------------------
(* Reading the JSON text back *)

\* a JSON text is read by recursive descent; a reader returns whether it
\* succeeded, the position after what it read, and the value read
Fail == [ok |-> FALSE, pos |-> 0, value |-> <<>>]

Read(pos, value) == [ok |-> TRUE, pos |-> pos, value |-> value]

Whitespace == {32, 9, 10, 13}

\* the first position from i on that holds no whitespace
SkipWhitespace(t, i) ==
    CHOOSE j \in i..(Len(t) + 1) :
        /\ \A k \in i..(j - 1) : t[k] \in Whitespace
        /\ j = Len(t) + 1 \/ t[j] \notin Whitespace

HexValue(c) ==
    IF c >= 48 /\ c <= 57 THEN c - 48
    ELSE IF c >= 65 /\ c <= 70 THEN c - 55
    ELSE IF c >= 97 /\ c <= 102 THEN c - 87
    ELSE 0 - 1

\* the character a two-character escape stands for
SimpleEscape(e) ==
    CASE e = 34 -> 34
      [] e = 92 -> 92
      [] e = 47 -> 47
      [] e = 98 -> 8
      [] e = 102 -> 12
      [] e = 110 -> 10
      [] e = 114 -> 13
      [] e = 116 -> 9
      [] OTHER -> 0 - 1

\* the characters of a string up to its closing quote
RECURSIVE ParseChars(_, _, _)
ParseChars(t, i, acc) ==
    IF i > Len(t) THEN Fail
    ELSE IF t[i] = 34 THEN Read(i + 1, acc)
    ELSE IF t[i] < 32 THEN Fail
    ELSE IF t[i] # 92 THEN ParseChars(t, i + 1, Append(acc, t[i]))
    ELSE IF i + 1 > Len(t) THEN Fail
    ELSE IF t[i + 1] = 117
    THEN IF i + 5 > Len(t) \/ \E k \in 2..5 : HexValue(t[i + k]) < 0
         THEN Fail
         ELSE ParseChars(t, i + 6,
                  Append(acc, 4096 * HexValue(t[i + 2]) + 256 * HexValue(t[i + 3])
                              + 16 * HexValue(t[i + 4]) + HexValue(t[i + 5])))
    ELSE IF SimpleEscape(t[i + 1]) < 0 THEN Fail
    ELSE ParseChars(t, i + 2, Append(acc, SimpleEscape(t[i + 1])))

ParseString(t, i) ==
    IF i > Len(t) \/ t[i] # 34 THEN Fail ELSE ParseChars(t, i + 1, <<>>)

\* the strings of an array from its first one up to the closing bracket
RECURSIVE ParseElements(_, _, _)
ParseElements(t, i, acc) ==
    LET s == ParseString(t, i)
        j == SkipWhitespace(t, s.pos)
    IN  IF ~s.ok THEN Fail
        ELSE IF j > Len(t) THEN Fail
        ELSE IF t[j] = 93 THEN Read(j + 1, Append(acc, s.value))
        ELSE IF t[j] = 44
        THEN ParseElements(t, SkipWhitespace(t, j + 1), Append(acc, s.value))
        ELSE Fail

\* a value: an array of strings when it starts with a bracket, else a string
ParseValue(t, i) ==
    IF i > Len(t) THEN Fail
    ELSE IF t[i] # 91 THEN ParseString(t, i)
    ELSE LET j == SkipWhitespace(t, i + 1)
         IN  IF j > Len(t) THEN Fail
             ELSE IF t[j] = 93 THEN Read(j + 1, <<>>)
             ELSE ParseElements(t, j, <<>>)

\* the members of an object from its first key up to the closing brace
RECURSIVE ParseMembers(_, _, _)
ParseMembers(t, i, acc) ==
    LET k == ParseString(t, i)
        c == SkipWhitespace(t, k.pos)
        vstart == SkipWhitespace(t, c + 1)
        v == ParseValue(t, vstart)
        j == SkipWhitespace(t, v.pos)
        entry == [key |-> k.value, value |-> v.value, list |-> t[vstart] = 91]
    IN  IF ~k.ok THEN Fail
        ELSE IF c > Len(t) THEN Fail
        ELSE IF t[c] # 58 THEN Fail
        ELSE IF ~v.ok THEN Fail
        ELSE IF j > Len(t) THEN Fail
        ELSE IF t[j] = 125 THEN Read(j + 1, Append(acc, entry))
        ELSE IF t[j] = 44
        THEN ParseMembers(t, SkipWhitespace(t, j + 1), Append(acc, entry))
        ELSE Fail

\* a whole JSON text holding one object: its members in the order of the text
ParseJson(t) ==
    LET i == SkipWhitespace(t, 1)
        j == SkipWhitespace(t, i + 1)
        r == IF j > Len(t) THEN Fail
             ELSE IF t[j] = 125 THEN Read(j + 1, <<>>)
             ELSE ParseMembers(t, j, <<>>)
    IN  IF i > Len(t) THEN Fail
        ELSE IF t[i] # 123 THEN Fail
        ELSE IF r.ok /\ SkipWhitespace(t, r.pos) = Len(t) + 1 THEN r
        ELSE Fail

\* the text reads back as the map it was written from
ReadsBackAs(t, isList, entries) ==
    LET p == ParseJson(t)
    IN  /\ p.ok
        /\ Len(p.value) = Len(entries)
        /\ \A e \in 1..Len(entries) :
              /\ p.value[e].list = isList
              /\ p.value[e].key = entries[e].key
              /\ p.value[e].value = entries[e].value

\* C18: the text the JSON writer gives for a map, parsed back, is that map,
\* key for key and value for value, also when names hold characters outside
\* ASCII or characters that JSON escapes
C18_RoundTrip ==
    Built => ReadsBackAs(json, script = "ExportObjectTree", exportData)

C18_Witness ==
    /\ Built
    /\ script = "ExportObjectTree"
    /\ exportData = ListMapOf(<<<<92, 117>>, <<55357, 56832>>, <<34>>>>)

\* C19: the keys of the index map, in the map and in the emitted JSON text,
\* come in ascending numeric order "0", "1", ..., "9", "10", ..., the order of
\* the collection, also when it holds more than ten records
C19_NumericKeyOrder ==
    (script \in IndexScripts /\ Built) =>
        LET n == Len(Collection(script))
            p == ParseJson(json)
        IN  /\ Len(exportData) = n
            /\ \A i \in 1..n : /\ exportData[i].key = Numeral(i - 1)
                                /\ exportData[i].value = Collection(script)[i].name
            /\ p.ok
            /\ Len(p.value) = n
            /\ \A i \in 1..n : /\ p.value[i].key = Numeral(i - 1)
                                /\ p.value[i].value = Collection(script)[i].name

C19_Witness ==
    /\ script \in IndexScripts
    /\ Built
    /\ Len(exportData) > 10
    /\ exportData[3].key = <<50>>
    /\ exportData[11].key = <<49, 48>>

-----------------------------------------------------------------------------
(* The order of the steps *)

\* the step shows a success message
ShowsSuccess ==
    /\ Len(host') = Len(host) + 1
    /\ host'[Len(host')].kind = "ScriptMessage"

\* C20: a success message is shown only by the last of the five steps guard,
\* resolve, build, write, report, taken in that order, when the output file
\* holds the whole text, and it names the path of that file; a step that
\* ends the run in failure shows no success message
C20_MessageAfterWrite ==
    [][/\ Len(steps') <= Len(AllSteps)
       /\ steps' = SubSeq(AllSteps, 1, Len(steps'))
       /\ ShowsSuccess =>
             /\ steps = SubSeq(AllSteps, 1, 4)
             /\ steps' = AllSteps
             /\ OutputFile = json
             /\ fs' = fs
             /\ host'[Len(host')].path = OutputPath(outputFolder, script)
             /\ pc' = "done"
       /\ pc' \in {"failed", "aborted"} => ~ShowsSuccess
       /\ (pc' = "done" /\ pc # "done") => ShowsSuccess]_vars

C20_Witness ==
    /\ pc = "done"
    /\ steps = AllSteps
    /\ LastEvent.kind = "ScriptMessage"
    /\ LastEvent.path = OutputPath(outputFolder, script)
    /\ OutputFile = json
    /\ diskFaulty

-----------------------------------------------------------------------------
(* Resources *)

\* C21: nothing a step opened outlives it: the configuration document is
\* held only inside the using block of GetMetaOutput, the output file only
\* inside File.WriteAllText, and when a run has ended, in success or in
\* failure, nothing is held
C21_NoHandleOutlivesStep ==
    /\ pc \in Terminal \cup {"idle"} => held = {}
    /\ held = (IF pc = "document" THEN {"document"}
               ELSE IF pc = "writing" THEN {"output"}
               ELSE {})

C21_Witness ==
    /\ pc = "failed"
    /\ held = {}
    /\ steps = <<"guard", "resolve", "build", "write">>
    /\ OutputFile # fsBefore.files[OutputPath(outputFolder, script)]
    /\ OutputFile # json

-----------------------------------------------------------------------------
(* The files of the four exporters *)

\* the name the claim gives the file of exporter s
NameOf(s) ==
    CASE s = "ExportSoundMap" -> "sound_index_map.json"
      [] s = "ExportSpriteMap" -> "sprite_index_map.json"
      [] s = "ExportObjectMap" -> "object_index_map.json"
      [] s = "ExportObjectTree" -> "object_tree.json"

\* the file of exporter s inside the folder
FileOf(folder, s) == [folder EXCEPT !.segs = @ \o <<NameOf(s)>>]

\* the file name at the end of a path
LastSegment(p) == p.segs[Len(p.segs)]

\* the exporters whose file the host has shown a success message for
Succeeded ==
    {s \in Scripts : \E i \in 1..Len(host) :
        host[i].kind = "ScriptMessage" /\ LastSegment(host[i].path) = NameOf(s)}

\* C22: a run changes no file but the one of its exporter, which lies in the
\* resolved folder under the exporter's own name; and in whatever order the
\* exporters have run, the file of each that succeeded is the one that
\* exporter writes when run alone: the serialization of its own map
C22_OwnFileOnly ==
    /\ \A p \in OutputPaths :
          (outputFolder = Relative(<<>>) \/ p # FileOf(outputFolder, script))
             => fs.files[p] = fsBefore.files[p]
    /\ fs.config = fsBefore.config
    /\ \A i \in 1..Len(host) :
          host[i].kind = "ScriptMessage" =>
             \E s \in Scripts :
                /\ LastSegment(host[i].path) = NameOf(s)
                /\ host[i].path \in {FileOf(d, s) : d \in fs.dirs}
                /\ fs.files[host[i].path] =
                      Serialize(s = "ExportObjectTree", BuildResult(s).entries)

C22_Witness ==
    /\ pc = "done"
    /\ Len(host) = 4
    /\ Succeeded = Scripts
    /\ LastSegment(host[1].path) = NameOf("ExportObjectTree")
    /\ LastSegment(host[4].path) = NameOf("ExportSoundMap")
    /\ fs.files[host[4].path] # fs.files[host[2].path]
    /\ fs.files[host[4].path] # fs.files[host[3].path]

-----------------------------------------------------------------------------
(* The core bindings *)

\* C23: begin_tab_item returns a bool when opened is None, and the pair
\* (selected, opened) when opened is given, as its docstring states
C23_TabItemReturnType ==
    ret.call = "begin_tab_item" =>
        IF ret.args.opened = "None"
        THEN ret.kind = "return" /\ ret.type = "bool"
        ELSE ret.kind = "return" /\ ret.type = "tuple" /\ Len(ret.value) = 2

\* the arguments are a colour: one tuple or list of numbers, one integer of
\* 32 bits, or four numbers
IsColour(args) ==
    \/ /\ Len(args) = 1
       /\ \/ args[1].type \in {"tuple", "list"} /\ (args[1].numeric \/ args[1].len = 0)
          \/ args[1].type = "int" /\ args[1].range = "u32"
    \/ /\ Len(args) = 4
       /\ \A i \in 1..4 : args[i].type \in {"int", "float"}

\* C24: a call of push_style_color with a colour (one tuple or list, one
\* integer colour, or four components) makes exactly one push; with any
\* other number of arguments it raises ValueError; and whenever it raises,
\* nothing was pushed and the depth of the stack is what it was
C24_OnePushOrNone ==
    [][ret'.call = "push_style_color" =>
         /\ IsColour(ret'.args) =>
               /\ ret'.kind = "return"
               /\ backend'.styleColors = backend.styleColors + 1
               /\ Len(calls') = Len(calls) + 1
               /\ calls'[Len(calls')].by = "push_style_color"
         /\ Len(ret'.args) \notin {1, 4} =>
               ret'.kind = "raise" /\ ret'.type = "ValueError"
         /\ ret'.kind = "raise" => backend' = backend /\ calls' = calls
         /\ ret'.kind = "return" =>
               backend'.styleColors = backend.styleColors + 1]_vars

C24_Witness ==
    /\ ret.call = "push_style_color"
    /\ ret.kind = "raise"
    /\ ret.type = "ValueError"
    /\ Len(ret.args) = 3
    /\ backend.styleColors = 1

\* C28: input_text and input_text_multiline stay inside the global buffer:
\* the effective size is between 1 and 65536, the number of bytes copied is
\* min(len(value_bytes), actual_size - 1) and not negative, and the
\* terminating zero is written at an index from 0 to 65535
C28_InsideBuffer ==
    ret.call \in {"input_text", "input_text_multiline"} =>
        /\ 1 <= ret.value.actual_size /\ ret.value.actual_size <= 65536
        /\ ret.value.copied =
              (IF ret.args.len <= ret.value.actual_size - 1
               THEN ret.args.len ELSE ret.value.actual_size - 1)
        /\ ret.value.copied >= 0
        /\ ret.value.terminator \in 0..65535

-----------------------------------------------------------------------------
(* The renderer *)

\* the positions of the log where fn was called by one of the given callers
CallsOf(fn, callers) ==
    {i \in 1..Len(calls) : calls[i].fn = fn /\ calls[i].by \in callers}

Closers == {"shutdown", "__dealloc__"}

Everyone == {"__init__", "shutdown", "__dealloc__", "process_inputs", "render",
             "refresh_font_texture"}

\* C25: whatever shutdown() calls and deallocation a GlfwRenderer goes
\* through, they call each backend shutdown function at most once, only for
\* an object whose construction succeeded, and the OpenGL3 shutdown right
\* before the GLFW shutdown; a second shutdown() and the destructor after a
\* shutdown() call neither again
C25_ShutdownOnce ==
    LET gl3 == CallsOf("ImGui_ImplOpenGL3_Shutdown", Closers)
        glfw == CallsOf("ImGui_ImplGlfw_Shutdown", Closers)
    IN  /\ Cardinality(gl3) <= 1
        /\ Cardinality(glfw) <= 1
        /\ gl3 \cup glfw # {} => renderer.life = "constructed"
        /\ \A i \in gl3 : calls[i].glfw /\ calls[i].gl3
        /\ \A i \in glfw : /\ (i - 1) \in gl3
                            /\ calls[i - 1].by = calls[i].by
                            /\ calls[i].glfw
        /\ Cardinality(gl3) = Cardinality(glfw)

C25_Witness ==
    /\ renderer.freed
    /\ ret.call = "__dealloc__"
    /\ CallsOf("ImGui_ImplOpenGL3_Shutdown", {"shutdown"}) # {}
    /\ CallsOf("ImGui_ImplGlfw_Shutdown", {"shutdown"}) # {}

\* C26: when the GLFW backend fails to initialize, __init__ raises
\* RuntimeError and no shutdown function is ever called for the object; when
\* the OpenGL3 backend fails after the GLFW backend succeeded, the GLFW
\* backend is shut down once, by __init__, RuntimeError is raised, the object
\* stays uninitialized and nothing shuts the GLFW backend down again
C26_CleanupOnFailure ==
    /\ renderer.life \in {"glfw_failed", "gl3_failed"} =>
          /\ ~renderer.initialized
          /\ ret.call = "__init__" => ret.kind = "raise" /\ ret.type = "RuntimeError"
          /\ CallsOf("ImGui_ImplOpenGL3_Shutdown", Everyone) = {}
          /\ CallsOf("ImGui_ImplGlfw_Shutdown", Closers) = {}
    /\ renderer.life = "glfw_failed" =>
          CallsOf("ImGui_ImplGlfw_Shutdown", Everyone) = {}
    /\ renderer.life = "gl3_failed" =>
          /\ Cardinality(CallsOf("ImGui_ImplGlfw_Shutdown", {"__init__"})) = 1
          /\ \A i \in CallsOf("ImGui_ImplGlfw_Shutdown", {"__init__"}) :
                calls[i].glfw /\ ~calls[i].gl3
          /\ ~backend.glfw

C26_Witness ==
    /\ renderer.life = "gl3_failed"
    /\ renderer.freed
    /\ ret.call = "__dealloc__"

\* the backend functions of a frame
FrameFunctions ==
    {"ImGui_ImplOpenGL3_NewFrame", "ImGui_ImplGlfw_NewFrame",
     "ImGui_ImplOpenGL3_RenderDrawData", "ImGui_ImplOpenGL3_DestroyFontsTexture",
     "ImGui_ImplOpenGL3_CreateFontsTexture"}

\* C27: no frame or render function of a backend is called while the
\* backends are not initialized
C27_NoFrameCallWhenDown ==
    \A i \in 1..Len(calls) :
        calls[i].fn \in FrameFunctions => calls[i].glfw /\ calls[i].gl3

\* C29: refresh_font_texture destroys the old font texture and then creates
\* the new one; when the creation fails it raises RuntimeError and no font
\* texture is held, when it succeeds exactly one is held
C29_RefreshReplacesTexture ==
    /\ \A i \in CallsOf("ImGui_ImplOpenGL3_CreateFontsTexture", Everyone) :
          /\ i > 1
          /\ calls[i - 1].fn = "ImGui_ImplOpenGL3_DestroyFontsTexture"
          /\ calls[i - 1].by = "refresh_font_texture"
    /\ (ret.call = "refresh_font_texture" /\ Running) =>
          /\ Len(calls) >= 2
          /\ calls[Len(calls)].fn = "ImGui_ImplOpenGL3_CreateFontsTexture"
          /\ ret.kind = "raise" =>
                ret.type = "RuntimeError" /\ backend.fontTextures = 0
          /\ ret.kind = "return" => backend.fontTextures = 1

C29_Witness ==
    /\ ret.call = "refresh_font_texture"
    /\ ret.kind = "raise"
    /\ backend.fontTextures = 0
    /\ CallsOf("ImGui_ImplOpenGL3_NewFrame", {"process_inputs"}) # {}

====
